---- MODULE Spec2Model ----
(***************************************************************************)
(* Kinematic solver and render loop of the EA888 inline-four visual        *)
(* simulator (src/src/engine.ts, src/unnamed/part_001 = main.ts).          *)
(*                                                                         *)
(* Numbers.  The program computes in IEEE doubles; the model computes in   *)
(* fixed point, rounding every operation to nearest (ties away from zero,  *)
(* sign-symmetric like IEEE rounding):                                     *)
(*   - angles are integer ticks of 15 degrees (HalfTurn ticks = Math.PI);  *)
(*     every angle handed to the assembly is an even number of ticks, so   *)
(*     that angle / 2 is exact, as halving a double is;                    *)
(*   - lengths are integers in units of 0.1 mm (1e-4 scene units);         *)
(*   - cosines, sines, unit vectors and scale factors are integers in      *)
(*     units of 1 / One;                                                   *)
(*   - times are integer milliseconds, the exploded factor is in percent.  *)
(* NaN is the one non-finite value the solver could produce.               *)
(***************************************************************************)
EXTENDS Integers, Sequences, FiniteSets, TLC

VARIABLES
    config,        \* CylinderKinematicsConfig shared by the four cylinders: r, l
    cylinders,     \* 1..4 -> crank / piston / rod state of one CylinderKinematics
    timing,        \* sprocket and camshaft angles
    valves,        \* intake / exhaust valve root.position.y per cylinder
    layout,        \* placements written by __setExploded
    lastTime,      \* main: lastTime (ms)
    crankAngle,    \* main: crankAngle accumulator (ticks)
    sim,           \* main: sim = { rpm }
    renderConfig,  \* main: renderConfig.exploded (percent)
    started,       \* whether __update has run (in main: whether animate has run,
                   \* lastTime then being a frame timestamp)
    lobeArgs,      \* function harness: the arguments lobeLift is called with
    lobeOut        \* function harness: <<>> before the call, <<result>> after it

vars == <<config, cylinders, timing, valves, layout, lastTime, crankAngle, sim,
          renderConfig, started, lobeArgs, lobeOut>>

engineVars == <<config, cylinders, timing, valves, layout>>
mainVars == <<lastTime, crankAngle, sim, renderConfig, started>>
lobeVars == <<lobeArgs, lobeOut>>

----------------------------------------------------------------------------
(* Bounds of the model *)

\* Frame timestamps range over LoadTime - 10 .. LoadTime + 10 * MaxSlots ms.
MaxSlots == 10

\* Angles passed to __update by a direct caller: 2 * (-MaxTicks .. MaxTicks) ticks
\* (and a few angles several revolutions away, FarAngles).
MaxTicks == 7

\* lobeLift harness: camPhase ranges over -MaxPhase .. MaxPhase ticks.
MaxPhase == 26

----------------------------------------------------------------------------
(* Number representation *)

\* Math.PI in ticks of 15 degrees.
HalfTurn == 12

\* Math.PI * 2
Turn == 2 * HalfTurn

\* The fixed-point representation of 1.0.
One == 10000

\* The double NaN (what Math.sqrt returns for a negative argument).
NaN == -1000000000

Max(a, b) == IF a >= b THEN a ELSE b

Min(a, b) == IF a <= b THEN a ELSE b

Abs(a) == IF a >= 0 THEN a ELSE -a

\* n / d rounded to nearest, for d > 0.
RoundDiv(n, d) ==
    IF n >= 0 THEN (2 * n + d) \div (2 * d) ELSE -((2 * (-n) + d) \div (2 * d))

\* The double Infinity (what a positive number divided by zero gives).
Infinity == 1000000000

\* Floating-point division n / d: Infinity, -Infinity or NaN for d = 0.
FDiv(n, d) ==
    IF n = NaN THEN NaN
    ELSE IF d = 0 THEN (IF n > 0 THEN Infinity ELSE IF n < 0 THEN -Infinity ELSE NaN)
    ELSE IF d < 0 THEN RoundDiv(-n, -d)
    ELSE RoundDiv(n, d)

\* a * c for a fixed-point factor c (units of 1 / One).
Mul(a, c) == RoundDiv(a * c, One)

\* Floating-point addition and subtraction: NaN propagates.
FAdd(a, b) == IF a = NaN \/ b = NaN THEN NaN ELSE a + b

FSub(a, b) == IF a = NaN \/ b = NaN THEN NaN ELSE a - b

\* JavaScript's %: the remainder takes the sign of the dividend.
JsMod(a, n) == IF a >= 0 THEN a % n ELSE -((-a) % n)

\* cos of 0, 15, ..., 90 degrees.
CosTab == <<10000, 9659, 8660, 7071, 5000, 2588, 0>>

\* Math.cos
Cos(a) ==
    LET m == a % Turn
        k == IF m > HalfTurn THEN Turn - m ELSE m
        q == HalfTurn \div 2
    IN  IF k <= q THEN CosTab[k + 1] ELSE -CosTab[(HalfTurn - k) + 1]

\* Math.sin
Sin(a) == Cos(a - HalfTurn \div 2)

RECURSIVE SqrtSearch(_, _, _)
SqrtSearch(x, lo, hi) ==
    IF lo >= hi THEN lo
    ELSE LET mid == (lo + hi + 1) \div 2
         IN  IF mid * mid <= x THEN SqrtSearch(x, mid, hi)
             ELSE SqrtSearch(x, lo, mid - 1)

\* Math.sqrt: NaN below zero, otherwise the root rounded to nearest.
Sqrt(x) ==
    IF x < 0 THEN NaN
    ELSE LET k == SqrtSearch(x, 0, 46340)
         IN  IF x - k * k > k THEN k + 1 ELSE k

----------------------------------------------------------------------------
(* Geometry of buildInlineFourEA888 (units of 0.1 mm) *)

deckHeight == 5000

crankThrowRadius == 430

rodLength == 1450

zSpacing == 950

bores == <<-(3 * zSpacing) \div 2, -zSpacing \div 2, zSpacing \div 2, (3 * zSpacing) \div 2>>

\* Faulty variant of phase: the firing pairs interleaved (1-3 and 2-4).
phaseAlternating == <<0, HalfTurn, 0, HalfTurn>>

\* const phase = [0, Math.PI, Math.PI, 0]
phase == <<0, HalfTurn, HalfTurn, 0>>

\* ea888Group.position.y = 1.2 (the parent of the assembly in main)
GroupY == 12000

\* new Valve(deckHeight + 0.08)
ValveBaseY == deckHeight + 800

\* const duration = (120 * Math.PI) / 180
duration == (120 * HalfTurn) \div 180

\* const liftMax = 0.015
liftMax == 150

\* (60 * Math.PI) / 180
IntakeCenter == (60 * HalfTurn) \div 180

\* (-60 * Math.PI) / 180
ExhaustCenter == -((60 * HalfTurn) \div 180)

Cyl == 1 .. 4

----------------------------------------------------------------------------
(* Vectors and the transforms three.js applies to them *)

Zero3 == <<0, 0, 0>>

\* Object3D's initial matrixWorld: the identity.
IdentityMatrix == [rotY |-> 0, pos |-> Zero3]

\* Vector3.applyEuler(new Euler(0, a, 0)): rotation about the Y axis.
ApplyEulerY(v, a) ==
    <<Mul(v[1], Cos(a)) + Mul(v[3], Sin(a)),
      v[2],
      Mul(v[3], Cos(a)) - Mul(v[1], Sin(a))>>

\* Vector3.applyMatrix4(m) for a matrix composed of a Y rotation and a translation.
ApplyMatrix4(v, m) ==
    LET w == ApplyEulerY(v, m.rotY)
    IN  <<w[1] + m.pos[1], w[2] + m.pos[2], w[3] + m.pos[3]>>

\* Vector3.subVectors(b, a)
SubVectors(b, a) == <<FSub(b[1], a[1]), FSub(b[2], a[2]), FSub(b[3], a[3])>>

\* Vector3.length
Length(v) ==
    IF v[1] = NaN \/ v[2] = NaN \/ v[3] = NaN THEN NaN
    ELSE Sqrt(v[1] * v[1] + v[2] * v[2] + v[3] * v[3])

\* Vector3.normalize (the zero vector stays zero), components in units of 1 / One.
Normalize(v) ==
    LET len == Length(v)
    IN  IF len = NaN THEN <<NaN, NaN, NaN>>
        ELSE IF len = 0 THEN Zero3
        ELSE <<RoundDiv(v[1] * One, len), RoundDiv(v[2] * One, len),
               RoundDiv(v[3] * One, len)>>

----------------------------------------------------------------------------
(* CylinderKinematics *)

\* Slider-crank displacement, y relative to the crank centre (engine.ts:247):
\* r * cos(theta) + sqrt(max(l * l - pow(r * sin(theta), 2), 0))
Radicand(r, l, theta) ==
    LET rs == Mul(r, Sin(theta))
    IN  l * l - rs * rs

\* Faulty variants of PistonOffset: the sign of the crank term flipped; the rod
\* length not squared; the radicand not clamped.
PistonOffsetFlipped(r, l, theta) ==
    FSub(Sqrt(Max(Radicand(r, l, theta), 0)), Mul(r, Cos(theta)))

PistonOffsetUnsquared(r, l, theta) ==
    LET rs == Mul(r, Sin(theta))
    IN  FAdd(Mul(r, Cos(theta)), Sqrt(Max(l - rs * rs, 0)))

PistonOffsetUnclamped(r, l, theta) ==
    FAdd(Mul(r, Cos(theta)), Sqrt(Radicand(r, l, theta)))

\* Faulty variant of PistonOffset: the crank term taken with the sine.
PistonOffsetSine(r, l, theta) ==
    FAdd(Mul(r, Sin(theta)), Sqrt(Max(Radicand(r, l, theta), 0)))

PistonOffset(r, l, theta) ==
    FAdd(Mul(r, Cos(theta)), Sqrt(Max(Radicand(r, l, theta), 0)))

\* Crankshaft.getJournalWorldPosition, angleRad already set to theta.
GetJournalWorldPosition(throwRadius, angleRad, matrixWorld) ==
    ApplyMatrix4(ApplyEulerY(<<0, 0, throwRadius>>, angleRad), matrixWorld)

\* ConnectingRod.alignBetween.  The quaternion setFromUnitVectors((0, 1, 0), n)
\* is represented by n, the unit vector it turns the rod's rest axis onto.
AlignBetween(worldA, worldB, length) ==
    LET dir == SubVectors(worldB, worldA)
        len == Length(dir)
    IN  [scaleY     |-> IF len = NaN THEN NaN ELSE FDiv(len * One, length),
         position   |-> worldA,
         quaternion |-> Normalize(dir),
         smallEndY  |-> len]

\* A cylinder as its constructor leaves it.
NewCylinder ==
    [angleRad    |-> 0,
     rotY        |-> 0,
     matrixWorld |-> IdentityMatrix,
     pistonY     |-> 0,
     tempA       |-> Zero3,
     rod         |-> [scaleY |-> One, position |-> Zero3,
                      quaternion |-> <<0, One, 0>>, smallEndY |-> 0]]

\* CylinderKinematics.update of cylinder i, in state c.
CylinderUpdate(cfg, i, c, crankAngleRad) ==
    LET theta == crankAngleRad + phase[i]
        r == cfg.crankThrowRadius
        l == cfg.rodLength
        y == PistonOffset(r, l, theta)
        deckY == deckHeight
        a == GetJournalWorldPosition(r, theta, c.matrixWorld)
        pistonPinWorld == <<0, FSub(deckY, y), bores[i]>>
    IN  [angleRad    |-> theta,
         rotY        |-> theta,
         matrixWorld |-> c.matrixWorld,
         pistonY     |-> FSub(deckY, y),
         tempA       |-> a,
         rod         |-> AlignBetween(a, pistonPinWorld, l)]

\* scene.updateMatrixWorld() under renderer.render: the crank root's world
\* matrix is recomposed from its rotation, its position (0, 0, boreCenterZ)
\* and the parent group's position.
RenderCylinder(i, c) ==
    [c EXCEPT !.matrixWorld = [rotY |-> c.rotY, pos |-> <<0, GroupY, bores[i]>>]]

----------------------------------------------------------------------------
(* Timing drive and valves *)

\* Faulty variant of SetCrankAngle: the camshaft turns at crank speed.
SetCrankAngleUnhalved(crankAngleRad) ==
    [angleRad |-> crankAngleRad, rotY |-> crankAngleRad]

\* Camshaft.setCrankAngle: this.angleRad = crankAngleRad / 2; rotation.y = angleRad
SetCrankAngle(crankAngleRad) ==
    LET angleRad == crankAngleRad \div 2
    IN  [angleRad |-> angleRad, rotY |-> angleRad]

\* The normalisation d = Math.atan2(Math.sin(d), Math.cos(d)) into [-PI, PI].
\* At an odd multiple of PI the double result is +-PI with the sign of the
\* rounding error of sin; the model takes the sign of d (only |d| is used).
NormalizeAngle(d) ==
    LET m == d % Turn
    IN  IF m < HalfTurn THEN m
        ELSE IF m > HalfTurn THEN m - Turn
        ELSE IF d >= 0 THEN HalfTurn ELSE -HalfTurn

\* Faulty variants of lobeLift: no window test; the cosine not raised.
lobeLiftUnwindowed(phi, center, dur, maxLift) ==
    LET d == NormalizeAngle(phi - center)
        t == RoundDiv(Cos(RoundDiv(2 * d * HalfTurn, dur)) + One, 2)
    IN  Mul(maxLift, t)

lobeLiftUnraised(phi, center, dur, maxLift) ==
    LET d == NormalizeAngle(phi - center)
        t == Cos(RoundDiv(2 * d * HalfTurn, dur))
    IN  IF 2 * Abs(d) > dur THEN 0 ELSE Mul(maxLift, t)

\* Faulty variant of lobeLift: the angular difference is not normalised.
lobeLiftUnnormalized(phi, center, dur, maxLift) ==
    LET d == phi - center
        t == RoundDiv(Cos(RoundDiv(2 * d * HalfTurn, dur)) + One, 2)
    IN  IF 2 * Abs(d) > dur THEN 0 ELSE Mul(maxLift, t)

\* lobeLift(phi, center, duration, maxLift)
lobeLift(phi, center, dur, maxLift) ==
    LET d == NormalizeAngle(phi - center)
        t == RoundDiv(Cos(RoundDiv(2 * d * HalfTurn, dur)) + One, 2)
    IN  IF 2 * Abs(d) > dur THEN 0 ELSE Mul(maxLift, t)

\* The sprocket and camshaft part of __update.
UpdateTiming(angle) ==
    LET camAngle == angle \div 2
    IN  [crankSprocket   |-> angle,
         intakeSprocket  |-> camAngle,
         exhaustSprocket |-> camAngle,
         intakeCam       |-> SetCrankAngle(angle),
         exhaustCam      |-> SetCrankAngle(angle)]

\* Valve.setLift: root.position.y = baseY - amount
SetLift(amount) == ValveBaseY - amount

\* The valve part of __update.
UpdateValves(angle) ==
    LET camAngle == angle \div 2
        phi(i) == camAngle + phase[i] \div 2
    IN  [intake  |-> [i \in Cyl |-> SetLift(lobeLift(phi(i), IntakeCenter, duration, liftMax))],
         exhaust |-> [i \in Cyl |-> SetLift(lobeLift(phi(i), ExhaustCenter, duration, liftMax))]]

\* __setExploded(t), t in percent: k = clamp(t, 0, 1)
ExplodedLayout(t) ==
    LET k == Max(0, Min(100, t))
    IN  [headY        |-> deckHeight + (k * 1500) \div 100,
         intakeCamZ   |-> (bores[1] - 1500) - (k * 1200) \div 100,
         exhaustCamZ  |-> (bores[4] + 1500) + (k * 1200) \div 100,
         timingGroupX |-> -((k * 1500) \div 100),
         valveGroupY  |-> (k * 500) \div 100]

----------------------------------------------------------------------------
(* The assembly as buildInlineFourEA888 returns it *)

EA888Config == [crankThrowRadius |-> crankThrowRadius, rodLength |-> rodLength]

NewTiming ==
    [crankSprocket   |-> 0,
     intakeSprocket  |-> 0,
     exhaustSprocket |-> 0,
     intakeCam       |-> [angleRad |-> 0, rotY |-> 0],
     exhaustCam      |-> [angleRad |-> 0, rotY |-> 0]]

NewValves == [intake |-> [i \in Cyl |-> ValveBaseY], exhaust |-> [i \in Cyl |-> ValveBaseY]]

NewLayout ==
    [headY        |-> deckHeight,
     intakeCamZ   |-> bores[1] - 1500,
     exhaustCamZ  |-> bores[4] + 1500,
     timingGroupX |-> 0,
     valveGroupY  |-> 0]

NewAssembly(cfg) ==
    /\ config = cfg
    /\ cylinders = [i \in Cyl |-> NewCylinder]
    /\ timing = NewTiming
    /\ valves = NewValves
    /\ layout = NewLayout

\* performance.now() when main is evaluated (ms).
LoadTime == 100

NewMain ==
    /\ lastTime = LoadTime
    /\ crankAngle = 0
    /\ sim = [rpm |-> 1500]
    /\ renderConfig = [exploded |-> 0]
    /\ started = FALSE

NoLobeCall ==
    /\ lobeArgs = [phi |-> 0, center |-> 0, duration |-> duration, maxLift |-> liftMax]
    /\ lobeOut = <<>>

----------------------------------------------------------------------------
(* The application: main's render loop and its GUI *)

\* const dt = Math.min(0.05, (now - lastTime) / 1000), in ms
MaxStepMs == 50

\* sim.rpm values the GUI slider (300 .. 7000, step 50) is moved to.
RpmValues == {500, 1500, 7000}

\* renderConfig.exploded values the GUI slider (0 .. 1, step 0.01) is moved to.
ExplodedValues == {0, 50, 100}

\* Gaps between a frame's timestamp and lastTime.  Frame timestamps never
\* decrease; the first one is compared with the performance.now() reading
\* taken at load, which it may precede (the timestamp is the frame's start).
FrameGaps == IF started THEN {10, 20, 50, 70} ELSE {-10, 0, 10, 20, 50, 70}

\* const angularVelocity = (Math.PI * 2 * sim.rpm) / 60, in ticks per second
AngularVelocity(rpm) == (Turn * rpm) \div 60

\* Faulty variant of FrameDt: the elapsed time not clamped.
FrameDtUnclamped(now) == now - lastTime

\* The frame's dt (ms) and the angle it adds to the accumulator.
FrameDt(now) == Min(MaxStepMs, now - lastTime)

FrameAdvance(now) == (AngularVelocity(sim.rpm) * FrameDt(now)) \div 1000

\* crankAngle = (crankAngle + angularVelocity * dt) % (Math.PI * 2)
NextCrankAngle(now) == JsMod(crankAngle + FrameAdvance(now), Turn)

\* The body of animate(now) after lastTime = now: advance the accumulator,
\* update the assembly, apply the exploded factor, render (which recomputes
\* every matrixWorld).
Frame(now) ==
    /\ crankAngle' = NextCrankAngle(now)
    /\ cylinders' = [i \in Cyl |->
            RenderCylinder(i, CylinderUpdate(config, i, cylinders[i], NextCrankAngle(now)))]
    /\ timing' = UpdateTiming(NextCrankAngle(now))
    /\ valves' = UpdateValves(NextCrankAngle(now))
    /\ layout' = ExplodedLayout(renderConfig.exploded)
    /\ started' = TRUE
    /\ UNCHANGED <<config, sim, renderConfig, lobeVars>>

\* animate(now)
Animate(now) ==
    /\ now - lastTime \in FrameGaps
    /\ now <= LoadTime + 10 * MaxSlots
    /\ lastTime' = now
    /\ Frame(now)

\* The RPM slider.
SetRpm(v) ==
    /\ v # sim.rpm
    /\ sim' = [sim EXCEPT !.rpm = v]
    /\ UNCHANGED <<engineVars, lastTime, crankAngle, renderConfig, started, lobeVars>>

\* The Exploded slider.
SetExplodedConfig(v) ==
    /\ v # renderConfig.exploded
    /\ renderConfig' = [renderConfig EXCEPT !.exploded = v]
    /\ UNCHANGED <<engineVars, lastTime, crankAngle, sim, started, lobeVars>>

Init == NewAssembly(EA888Config) /\ NewMain /\ NoLobeCall

Next ==
    \/ \E now \in (LoadTime - 10) .. (LoadTime + 10 * MaxSlots) : Animate(now)
    \/ \E v \in RpmValues : SetRpm(v)
    \/ \E v \in ExplodedValues : SetExplodedConfig(v)

Spec == Init /\ [][Next]_vars

\* The same application when no frame timestamp precedes lastTime (the first
\* frame's included).
AnimateInOrder(now) == now >= lastTime /\ Animate(now)

NextInOrder ==
    \/ \E now \in LoadTime .. (LoadTime + 10 * MaxSlots) : AnimateInOrder(now)
    \/ \E v \in RpmValues : SetRpm(v)
    \/ \E v \in ExplodedValues : SetExplodedConfig(v)

SpecInOrder == Init /\ [][NextInOrder]_vars

\* The render loop running for ever.  Every frame requests the next one, so
\* frames keep coming; their timestamps grow without bound and animate reads
\* them only through now - lastTime, so time is kept relative to the previous
\* frame: lastTime stays at LoadTime and now is LoadTime plus the gap.
LiveGaps == {10, 20, 50, 70}

AnimateLive(now) ==
    /\ now - lastTime \in LiveGaps
    /\ lastTime' = lastTime
    /\ Frame(now)

LiveFrames == \E now \in (LoadTime + 10) .. (LoadTime + 70) : AnimateLive(now)

NextLive ==
    \/ LiveFrames
    \/ \E v \in RpmValues : SetRpm(v)
    \/ \E v \in ExplodedValues : SetExplodedConfig(v)

\* requestAnimationFrame(animate) at the end of every frame: a next frame
\* always comes.  A frame is the only step that moves the accumulator, and
\* every frame does (no step here is a whole number of revolutions), so the
\* fairness of frames is stated on the accumulator.
FrameComes ==
    \E now \in (LoadTime + 10) .. (LoadTime + 70) :
        /\ now - lastTime \in LiveGaps
        /\ crankAngle' = NextCrankAngle(now)

SpecLive == Init /\ [][NextLive]_vars /\ WF_crankAngle(FrameComes)

----------------------------------------------------------------------------
(* The assembly driven by any caller, for any geometry *)

\* Throw radius and rod length: the EA888's, another valid one, l = r, r > l.
Geometries ==
    { EA888Config,
      [crankThrowRadius |-> 300, rodLength |-> 500],
      [crankThrowRadius |-> 1000, rodLength |-> 1000],
      [crankThrowRadius |-> 2000, rodLength |-> 1000] }

FarAngles == {-3 * Turn, -Turn - 10, Turn + 14, 2 * Turn + 6, 4 * Turn}

ApiAngles == { 2 * k : k \in -MaxTicks .. MaxTicks } \cup FarAngles

ApiExploded == {-50, 50, 150}

\* assembly.__update(angle)
Update(angle) ==
    /\ cylinders' = [i \in Cyl |-> CylinderUpdate(config, i, cylinders[i], angle)]
    /\ timing' = UpdateTiming(angle)
    /\ valves' = UpdateValves(angle)
    /\ started' = TRUE
    /\ UNCHANGED <<config, layout, lastTime, crankAngle, sim, renderConfig, lobeVars>>

\* Faulty variant of SetExploded: the valve offset is written to every valve's
\* root instead of the valve group, overwriting the lift.
SetExplodedMovingValves(t) ==
    /\ layout' = ExplodedLayout(t)
    /\ layout' # layout
    /\ valves' = [intake  |-> [i \in Cyl |-> layout'.valveGroupY],
                  exhaust |-> [i \in Cyl |-> layout'.valveGroupY]]
    /\ UNCHANGED <<config, cylinders, timing, mainVars, lobeVars>>

\* assembly.__setExploded(t)
SetExploded(t) ==
    /\ layout' = ExplodedLayout(t)
    /\ layout' # layout
    /\ UNCHANGED <<config, cylinders, timing, valves, mainVars, lobeVars>>

\* renderer.render(scene, camera)
Render ==
    /\ cylinders' = [i \in Cyl |-> RenderCylinder(i, cylinders[i])]
    /\ cylinders' # cylinders
    /\ UNCHANGED <<config, timing, valves, layout, mainVars, lobeVars>>

InitApi == (\E g \in Geometries : NewAssembly(g)) /\ NewMain /\ NoLobeCall

NextApi ==
    \/ \E a \in ApiAngles : Update(a)
    \/ \E t \in ApiExploded : SetExploded(t)
    \/ Render

SpecApi == InitApi /\ [][NextApi]_vars

----------------------------------------------------------------------------
(* Cylinders constructed by any caller, for any throw radius and rod length *)

\* The assembly before its cylinders are constructed.
NoCylinders == <<>>

\* CylinderKinematicsConfig values a caller may pass: r and l negative, zero
\* or positive, and the geometries with l <= r.
BuildConfigs ==
    { [crankThrowRadius |-> r, rodLength |-> l] :
          r \in {-crankThrowRadius, 0, crankThrowRadius},
          l \in {-rodLength, 0, rodLength} }
    \cup { [crankThrowRadius |-> 1000, rodLength |-> 1000],
           [crankThrowRadius |-> 2000, rodLength |-> 1000] }

\* new CylinderKinematics(config) for each cylinder: new Crankshaft(r),
\* new ConnectingRod(l), new Piston; the constructors store their arguments
\* and have no other path.
Construct ==
    /\ cylinders = NoCylinders
    /\ cylinders' = [i \in Cyl |-> NewCylinder]
    /\ UNCHANGED <<config, timing, valves, layout, mainVars, lobeVars>>

\* update on the constructed cylinders
UpdateBuilt(angle) == cylinders # NoCylinders /\ Update(angle)

InitBuild ==
    /\ config \in BuildConfigs
    /\ cylinders = NoCylinders
    /\ timing = NewTiming
    /\ valves = NewValves
    /\ layout = NewLayout
    /\ NewMain
    /\ NoLobeCall

NextBuild ==
    \/ Construct
    \/ \E a \in ApiAngles : UpdateBuilt(a)

SpecBuild == InitBuild /\ [][NextBuild]_vars

----------------------------------------------------------------------------
(* lobeLift called with any arguments *)

\* Durations dividing a turn (15 .. 360 degrees), so that d / (duration / 2) * PI
\* is a whole number of ticks; 8 ticks = 120 degrees is the program's.
LobeDurations == {1, 2, 4, 6, 8, 12, 24}

LobeCenters == {-HalfTurn, -7, ExhaustCenter, 0, 1, IntakeCenter, 9, HalfTurn}

LobeMaxLifts == {0, 1, liftMax, 1000}

CallLobeLift ==
    /\ lobeOut = <<>>
    /\ lobeOut' = <<lobeLift(lobeArgs.phi, lobeArgs.center, lobeArgs.duration,
                             lobeArgs.maxLift)>>
    /\ UNCHANGED <<engineVars, mainVars, lobeArgs>>

InitLobe ==
    /\ NewAssembly(EA888Config)
    /\ NewMain
    /\ lobeArgs \in [phi : -MaxPhase .. MaxPhase, center : LobeCenters,
                     duration : LobeDurations, maxLift : LobeMaxLifts]
    /\ lobeOut = <<>>

NextLobe == CallLobeLift

SpecLobe == InitLobe /\ [][NextLobe]_vars

----------------------------------------------------------------------------
(* Properties *)

\* What the solver's outputs say: the piston offset y of cylinder i (the piston
\* is placed at deckHeight - y), the lift of a valve (placed at baseY - lift),
\* the angle last passed to __update (each crank holds angle + phase).
OffsetOf(i) == FSub(deckHeight, cylinders[i].pistonY)

LiftOf(y) == ValveBaseY - y

AnglePassed == cylinders[1].angleRad - phase[1]

ValidGeometry == config.rodLength > config.crankThrowRadius /\ config.crankThrowRadius > 0

\* C1: for l > r > 0 the piston offset is r + l at local crank angle 0 (TDC)
\* and l - r at local crank angle PI (BDC); for the EA888 geometry these are
\* 0.188 and 0.102.
C1_DeadCentres ==
    (started /\ ValidGeometry) =>
        \A i \in Cyl :
            /\ cylinders[i].angleRad % Turn = 0 =>
                   /\ OffsetOf(i) = config.crankThrowRadius + config.rodLength
                   /\ config = EA888Config => OffsetOf(i) = 1880
            /\ cylinders[i].angleRad % Turn = HalfTurn =>
                   /\ OffsetOf(i) = config.rodLength - config.crankThrowRadius
                   /\ config = EA888Config => OffsetOf(i) = 1020

C1_Witness ==
    /\ started
    /\ config = EA888Config
    /\ cylinders[1].angleRad = 0
    /\ cylinders[2].angleRad = HalfTurn
    /\ OffsetOf(1) = 1880
    /\ OffsetOf(2) = 1020

\* C2: for l > r > 0 and every local crank angle the piston offset lies in
\* [l - r, l + r].
C2_OffsetBounds ==
    (started /\ ValidGeometry) =>
        \A i \in Cyl :
            /\ OffsetOf(i) >= config.rodLength - config.crankThrowRadius
            /\ OffsetOf(i) <= config.rodLength + config.crankThrowRadius

C2_Witness ==
    /\ started
    /\ ValidGeometry
    /\ cylinders[1].angleRad % HalfTurn # 0
    /\ OffsetOf(1) > config.rodLength - config.crankThrowRadius
    /\ OffsetOf(1) < config.rodLength + config.crankThrowRadius

\* C3: with r > l the piston offset is never NaN, and wherever
\* l^2 - (r sin theta)^2 is negative it is exactly r cos theta.
C3_DegenerateGuard ==
    (started /\ config.crankThrowRadius > config.rodLength) =>
        \A i \in Cyl :
            /\ cylinders[i].pistonY # NaN
            /\ Radicand(config.crankThrowRadius, config.rodLength, cylinders[i].angleRad) < 0
                   => OffsetOf(i) = Mul(config.crankThrowRadius, Cos(cylinders[i].angleRad))

C3_Witness ==
    /\ started
    /\ config.crankThrowRadius > config.rodLength
    /\ Radicand(config.crankThrowRadius, config.rodLength, cylinders[1].angleRad) < 0
    /\ OffsetOf(1) = Mul(config.crankThrowRadius, Cos(cylinders[1].angleRad))
    /\ OffsetOf(1) # 0

\* The shortest angular distance between two angles, in 0 .. HalfTurn.
AngularDistance(a, b) ==
    LET m == (a - b) % Turn
    IN  IF m <= HalfTurn THEN m ELSE Turn - m

\* C4: lobeLift is 0 whenever the shortest angular distance between camPhase
\* and lobeCenter is at least duration / 2, the window edges included.
C4_ZeroOutsideWindow ==
    (lobeOut # <<>>
        /\ 2 * AngularDistance(lobeArgs.phi, lobeArgs.center) >= lobeArgs.duration)
    => lobeOut[1] = 0

C4_Witness ==
    /\ lobeOut = <<0>>
    /\ lobeArgs.maxLift > 0
    /\ 2 * AngularDistance(lobeArgs.phi, lobeArgs.center) = lobeArgs.duration

\* C5: for duration > 0 and maxLift >= 0, lobeLift is in [0, maxLift], and it
\* is maxLift when camPhase and lobeCenter are equal or a whole number of
\* revolutions apart.
C5_LiftRange ==
    lobeOut # <<>> =>
        /\ lobeOut[1] >= 0
        /\ lobeOut[1] <= lobeArgs.maxLift
        /\ (lobeArgs.phi - lobeArgs.center) % Turn = 0 => lobeOut[1] = lobeArgs.maxLift

C5_Witness ==
    /\ lobeOut # <<>>
    /\ lobeArgs.maxLift > 0
    /\ lobeArgs.phi - lobeArgs.center = Turn
    /\ lobeOut[1] = lobeArgs.maxLift

\* C6: after every update the crank sprocket holds the angle passed, and both
\* cam sprockets and both camshafts hold exactly half of it, for negative and
\* multi-revolution angles too.
C6_CamHalfCrank ==
    started =>
        /\ timing.crankSprocket = AnglePassed
        /\ \A x \in {timing.intakeSprocket, timing.exhaustSprocket,
                     timing.intakeCam.angleRad, timing.intakeCam.rotY,
                     timing.exhaustCam.angleRad, timing.exhaustCam.rotY} :
               2 * x = AnglePassed

C6_Witness ==
    /\ started
    /\ AnglePassed = -Turn - 10
    /\ timing.crankSprocket = -Turn - 10
    /\ timing.intakeCam.angleRad = -HalfTurn - 5
    /\ timing.exhaustSprocket = -HalfTurn - 5

\* C7: in every frame the cam angle advances by half of the frame's crank
\* advance, modulo one revolution (one cam revolution per two crank
\* revolutions, no jump where the accumulator wraps).  In a step of the
\* render loop the frame's timestamp is the new lastTime.
C7_CamFollowsCrank ==
    [][(timing'.intakeCam.angleRad - timing.intakeCam.angleRad
            - FrameAdvance(lastTime') \div 2) % Turn = 0]_vars

\* C8: the crank angle passed to the assembly update lies in [0, 2 PI).
C8_CrankAngleWrapped ==
    started => (timing.crankSprocket >= 0 /\ timing.crankSprocket < Turn)

\* The state __update produces, without the world matrices render maintains.
Kinematics(cyls) ==
    <<[i \in Cyl |-> [angleRad |-> cyls[i].angleRad, rotY |-> cyls[i].rotY,
                      pistonY |-> cyls[i].pistonY, tempA |-> cyls[i].tempA,
                      rod |-> cyls[i].rod]],
      timing, valves>>

\* C9: the state produced by the update is a function of the geometry and
\* the angle passed only: it is the state that an update with that angle
\* produces on the freshly built assembly, whatever was updated and
\* rendered before.
C9_FunctionOfAngle ==
    started =>
        Kinematics(cylinders) =
            <<[i \in Cyl |->
                  LET c == CylinderUpdate(config, i, NewCylinder, AnglePassed)
                  IN  [angleRad |-> c.angleRad, rotY |-> c.rotY, pistonY |-> c.pistonY,
                       tempA |-> c.tempA, rod |-> c.rod]],
              UpdateTiming(AnglePassed), UpdateValves(AnglePassed)>>

\* The world matrices a crank root can hold: the initial identity, or the one
\* a render composed from some crank rotation.
CrankMatrices(i) ==
    {IdentityMatrix} \cup
    {[rotY |-> a + phase[i], pos |-> <<0, GroupY, bores[i]>>] : a \in ApiAngles}

\* C10: setExploded leaves piston heights, crank angles, rod poses, cam and
\* sprocket angles and valve lifts unchanged, and after an update they are
\* what the geometry, the angle and the crank's world matrix give, whatever
\* setExploded calls came before.
C10_AfterUpdate ==
    started =>
        /\ timing = UpdateTiming(AnglePassed)
        /\ valves = UpdateValves(AnglePassed)
        /\ \A i \in Cyl :
              /\ cylinders[i].angleRad = AnglePassed + phase[i]
              /\ cylinders[i].rotY = cylinders[i].angleRad
              /\ cylinders[i].pistonY =
                     deckHeight - PistonOffset(config.crankThrowRadius, config.rodLength,
                                               cylinders[i].angleRad)
              /\ \E m \in CrankMatrices(i) :
                     cylinders[i].tempA =
                         GetJournalWorldPosition(config.crankThrowRadius,
                                                 cylinders[i].angleRad, m)
              /\ cylinders[i].rod =
                     AlignBetween(cylinders[i].tempA, <<0, cylinders[i].pistonY, bores[i]>>,
                                  config.rodLength)

C10_ExplodedIsPresentational ==
    /\ []C10_AfterUpdate
    /\ [][layout' # layout => UNCHANGED <<cylinders, timing, valves>>]_vars

C10_Witness ==
    /\ started
    /\ layout = ExplodedLayout(100)
    /\ AnglePassed = 2
    /\ cylinders[1].matrixWorld # IdentityMatrix
    /\ LiftOf(valves.intake[1]) > 0

\* Cylinder i is at top (bottom) dead centre: local crank angle 0 (PI).
AtTDC(i) == cylinders[i].angleRad % Turn = 0

AtBDC(i) == cylinders[i].angleRad % Turn = HalfTurn

\* C11: after every update cylinders 1 and 4 have the same local crank angle
\* and piston height, cylinders 2 and 3 have the same local crank angle and
\* piston height, and the pairs' local crank angles differ by exactly PI, so
\* each pair is at TDC exactly when the other is at BDC.
C11_PairedCylinders ==
    started =>
        /\ cylinders[1].angleRad = cylinders[4].angleRad
        /\ cylinders[1].pistonY = cylinders[4].pistonY
        /\ cylinders[2].angleRad = cylinders[3].angleRad
        /\ cylinders[2].pistonY = cylinders[3].pistonY
        /\ cylinders[2].angleRad - cylinders[1].angleRad = HalfTurn
        /\ (AtTDC(1) /\ AtTDC(4)) <=> (AtBDC(2) /\ AtBDC(3))
        /\ (AtBDC(1) /\ AtBDC(4)) <=> (AtTDC(2) /\ AtTDC(3))

C11_Witness ==
    /\ started
    /\ config = EA888Config
    /\ AtBDC(1) /\ AtTDC(2)
    /\ cylinders[4].pistonY = deckHeight - 1020
    /\ cylinders[3].pistonY = deckHeight - 1880

\* C12: the piston offset is periodic and mirror-symmetric in the local crank
\* angle: offset(theta + 2 PI) = offset(theta), offset(-theta) = offset(theta)
\* and offset(PI + theta) = offset(PI - theta).  The offset at theta is the
\* one the update stored for a cylinder at theta; cylinder 2 is at PI + the
\* angle of cylinder 1.
C12_OffsetSymmetry ==
    started =>
        LET r == config.crankThrowRadius
            l == config.rodLength
        IN  /\ \A i \in Cyl :
                  LET theta == cylinders[i].angleRad
                  IN  /\ PistonOffset(r, l, theta + Turn) = OffsetOf(i)
                      /\ PistonOffset(r, l, theta - Turn) = OffsetOf(i)
                      /\ PistonOffset(r, l, -theta) = OffsetOf(i)
                      /\ PistonOffset(r, l, HalfTurn + theta)
                             = PistonOffset(r, l, HalfTurn - theta)
            /\ PistonOffset(r, l, HalfTurn - cylinders[1].angleRad) = OffsetOf(2)

C12_Witness ==
    /\ started
    /\ config = EA888Config
    /\ cylinders[1].angleRad = -Turn - 10
    /\ OffsetOf(1) = PistonOffset(crankThrowRadius, rodLength, 10)
    /\ OffsetOf(1) = PistonOffset(crankThrowRadius, rodLength, Turn + 10)
    /\ OffsetOf(2) = PistonOffset(crankThrowRadius, rodLength, HalfTurn + 10)
    /\ OffsetOf(1) # OffsetOf(2)
    /\ OffsetOf(1) < 1880

\* C13: lobeLift is symmetric about the lobe centre and periodic in the cam
\* phase: lift(center + x) = lift(center - x) for |x| < duration / 2, and
\* lift(camPhase + 2 PI) = lift(camPhase).  The lift at camPhase is the one
\* the call returned; x is camPhase - center.
C13_LobeSymmetry ==
    lobeOut # <<>> =>
        LET phi == lobeArgs.phi
            center == lobeArgs.center
            dur == lobeArgs.duration
            maxLift == lobeArgs.maxLift
        IN  /\ 2 * Abs(phi - center) < dur
                   => lobeLift(center - (phi - center), center, dur, maxLift) = lobeOut[1]
            /\ lobeLift(phi + Turn, center, dur, maxLift) = lobeOut[1]
            /\ lobeLift(phi - Turn, center, dur, maxLift) = lobeOut[1]

C13_Witness ==
    /\ lobeOut # <<>>
    /\ lobeArgs.duration = duration
    /\ lobeArgs.maxLift = liftMax
    /\ lobeArgs.center = IntakeCenter
    /\ lobeArgs.phi = IntakeCenter + 2
    /\ lobeOut[1] > 0
    /\ lobeOut[1] < liftMax
    /\ lobeOut[1] = lobeLift(IntakeCenter - 2, IntakeCenter, duration, liftMax)
    /\ lobeOut[1] = lobeLift(IntakeCenter + 2 + Turn, IntakeCenter, duration, liftMax)

\* C14: in every frame the elapsed time that advances the crank is clamped to
\* 0.05 s: the angle added to the accumulator never exceeds
\* 2 PI * rpm / 60 * 0.05, however long the gap since the previous frame.  In
\* a step of the render loop the frame's timestamp is the new lastTime and the
\* new accumulator is the old one plus the angle added, wrapped; where the
\* largest step is less than a revolution the accumulator itself shows it.
C14_StepClamped ==
    [][LET added == FrameAdvance(lastTime')
           largest == (AngularVelocity(sim.rpm) * 50) \div 1000
       IN  /\ crankAngle' = JsMod(crankAngle + added, Turn)
           /\ added <= largest
           /\ (largest < Turn /\ lastTime' >= lastTime)
                  => (crankAngle' - crankAngle) % Turn <= largest]_vars

\* The first frame came 70 ms after load at 1500 rpm (the crank's world matrix
\* was still the identity when it ran) and added 450 degrees, not 630.
C14_Witness ==
    /\ started
    /\ lastTime = LoadTime + 70
    /\ cylinders[1].tempA[2] = 0
    /\ sim.rpm = 1500
    /\ crankAngle = 6

\* C15: constructing the cylinders with a non-positive crank throw radius r
\* or rod length l is rejected at construction time (the constructor does not
\* complete), while a geometry with positive l <= r is accepted.
C15_ConstructionValidated ==
    cylinders = NoCylinders =>
        /\ (config.crankThrowRadius <= 0 \/ config.rodLength <= 0) => ~ENABLED Construct
        /\ (config.crankThrowRadius > 0 /\ config.rodLength > 0) => ENABLED Construct

\* C16: after update each piston's axial position is deckHeight -
\* pistonOffset(theta); for l > r > 0 the piston is below the deck at TDC and
\* its position does not increase as theta sweeps from 0 to PI: a cylinder
\* further along the sweep is no higher, and one tick further on the solver
\* places the piston no higher.
C16_PistonDescends ==
    started =>
        LET r == config.crankThrowRadius
            l == config.rodLength
            InSweep(i) == cylinders[i].angleRad >= 0 /\ cylinders[i].angleRad <= HalfTurn
        IN  /\ \A i \in Cyl :
                  cylinders[i].pistonY
                      = FSub(deckHeight, PistonOffset(r, l, cylinders[i].angleRad))
            /\ ValidGeometry =>
                  /\ \A i \in Cyl : AtTDC(i) => cylinders[i].pistonY < deckHeight
                  /\ \A i, j \in Cyl :
                        (InSweep(i) /\ InSweep(j)
                            /\ cylinders[i].angleRad <= cylinders[j].angleRad)
                        => cylinders[j].pistonY <= cylinders[i].pistonY
                  /\ \A i \in Cyl :
                        (InSweep(i) /\ cylinders[i].angleRad < HalfTurn)
                        => FSub(deckHeight, PistonOffset(r, l, cylinders[i].angleRad + 1))
                               <= cylinders[i].pistonY

\* C17: as long as the render loop keeps running frames with positive elapsed
\* time and positive rpm, every cylinder's intake valve and every cylinder's
\* exhaust valve opens again and again: each of the 8 valves has lift greater
\* than 0 in infinitely many frames.
C17_ValvesKeepOpening ==
    \A i \in Cyl :
        /\ []<>(LiftOf(valves.intake[i]) > 0)
        /\ []<>(LiftOf(valves.exhaust[i]) > 0)

====
